---- MODULE Spec2Model ----
(***************************************************************************)
(* check-email-js: checkEmail(email, options) and its helpers getResponse  *)
(* and validateDomains (src/src/index.ts).                                 *)
(*                                                                         *)
(* Strings are sequences of one-character strings.  JavaScript values are  *)
(* records [t, n, s, l]: t is the typeof tag ("undefined", "number",       *)
(* "string", "boolean", "array"), n the number (or 0/1 for a boolean),     *)
(* s the characters of a string, l the elements of an array.               *)
(***************************************************************************)
EXTENDS Integers, Sequences, FiniteSets

VARIABLES
  pc,       \* "ready", or the function that was called
  email,    \* argument email of checkEmail and of getResponse
  domains,  \* options.domains of checkEmail
  max,      \* options.max of checkEmail
  valid,    \* argument valid of getResponse
  error,    \* argument error of getResponse
  result    \* what the call produced: a ValidationResult or an exception

vars == <<pc, email, domains, max, valid, error, result>>

-----------------------------------------------------------------------------
(* Bounds of the model *)

\* emails of every shape have at most MaxEmailLen characters
MaxEmailLen == 4

\* emails that begin with a@ have at most MaxTailLen characters after it
MaxTailLen == 7

\* emails that end with a domain have at most MaxLocalLen characters before it
MaxLocalLen == 3

\* max is a positive integer (spec section 3) of at most MaxMax
MaxMax == 4

\* an allow-list of well-formed domains has at most MaxAllowList entries
MaxAllowList == 3

\* a list of domains, well-formed or not, has at most MaxDomainList entries
MaxDomainList == 3

-----------------------------------------------------------------------------
(* JavaScript values *)

Undefined == [t |-> "undefined", n |-> 0, s |-> <<>>, l |-> <<>>]

Null == [t |-> "null", n |-> 0, s |-> <<>>, l |-> <<>>]

Num(n) == [t |-> "number", n |-> n, s |-> <<>>, l |-> <<>>]

Str(s) == [t |-> "string", n |-> 0, s |-> s, l |-> <<>>]

Bool(b) == [t |-> "boolean", n |-> IF b THEN 1 ELSE 0, s |-> <<>>, l |-> <<>>]

Arr(l) == [t |-> "array", n |-> 0, s |-> <<>>, l |-> l]

\* ToBoolean: what !x, x && y, x || y and if (x) test
Truthy(v) ==
  CASE v.t = "undefined" -> FALSE
    [] v.t = "null" -> FALSE
    [] v.t = "number" -> v.n # 0
    [] v.t = "string" -> v.s # <<>>
    [] v.t = "boolean" -> v.n = 1
    [] OTHER -> TRUE

-----------------------------------------------------------------------------
(* Characters: a and b stand for the letters, 1 for the digits; with the   *)
(* underscore they are the word characters \w.  The other characters used  *)
(* are the separators . and - and the @.                                   *)

Letters == {"a", "b"}

Digits == {"1"}

WordChars == Letters \cup Digits \cup {"_"}

\* all strings over the characters cs of length at most n
RECURSIVE Strings(_, _)
Strings(cs, n) ==
  IF n = 0 THEN {<<>>}
  ELSE LET shorter == Strings(cs, n - 1)
       IN  shorter \cup {Append(s, c) : s \in shorter, c \in cs}

-----------------------------------------------------------------------------
(* Regular expressions: the patterns of index.ts as syntax trees, and       *)
(* RegExp.prototype.test for patterns anchored with ^ and $.                *)

Lit(c) == [t |-> "lit", c |-> c]

Any == [t |-> "any"]

Word == [t |-> "word"]

Alpha == [t |-> "alpha"]

SepClass == [t |-> "sep"]

Cat(rs) == [t |-> "cat", rs |-> rs]

Opt(r) == [t |-> "rep", r |-> r, lo |-> 0, hi |-> 1]

Star(r) == [t |-> "rep", r |-> r, lo |-> 0, hi |-> -1]

Plus(r) == [t |-> "rep", r |-> r, lo |-> 1, hi |-> -1]

Rep(r, lo, hi) == [t |-> "rep", r |-> r, lo |-> lo, hi |-> hi]

\* one character of pattern source text interpolated by a template string
SourceChar(c) == IF c = "." THEN Any ELSE Lit(c)

SourceText(s) == [i \in 1..Len(s) |-> SourceChar(s[i])]

\* does one character match a single-character atom
CharMatches(r, c) ==
  CASE r.t = "lit" -> c = r.c
    [] r.t = "any" -> TRUE
    [] r.t = "word" -> c \in WordChars
    [] r.t = "alpha" -> c \in Letters
    [] r.t = "sep" -> c \in {".", "-"}
    [] OTHER -> FALSE

\* new RegExp(...) throws a SyntaxError for a quantifier {lo,hi} with hi < lo
RECURSIVE Compiles(_)
Compiles(r) ==
  CASE r.t = "cat" -> \A i \in 1..Len(r.rs) : Compiles(r.rs[i])
    [] r.t = "rep" -> (r.hi = -1 \/ r.lo <= r.hi) /\ Compiles(r.r)
    [] OTHER -> TRUE

\* After(r, s, P): the positions of s where a match of r can end when it
\* starts at a position of P (positions count the characters consumed)
RECURSIVE After(_, _, _)
RECURSIVE AfterCat(_, _, _, _)
RECURSIVE AfterRep(_, _, _, _, _)
After(r, s, P) ==
  CASE r.t = "cat" -> AfterCat(r.rs, 1, s, P)
    [] r.t = "rep" -> AfterRep(r.r, r.lo, r.hi, s, P)
    [] OTHER -> {i + 1 : i \in {j \in P : j < Len(s) /\ CharMatches(r, s[j + 1])}}

AfterCat(rs, k, s, P) ==
  IF k > Len(rs) \/ P = {} THEN P
  ELSE AfterCat(rs, k + 1, s, After(rs[k], s, P))

AfterRep(r, lo, hi, s, P) ==
  IF P = {} THEN {}
  ELSE IF lo > 0 THEN AfterRep(r, lo - 1, IF hi = -1 THEN -1 ELSE hi - 1, s, After(r, s, P))
  ELSE IF hi = 0 THEN P
  ELSE LET Q == After(r, s, P) \ P
       IN  P \cup AfterRep(r, 0, IF hi = -1 THEN -1 ELSE hi - 1, s, Q)

\* pattern.test(s) for a pattern ^r$
Test(r, s) == Len(s) \in After(r, s, {0})

-----------------------------------------------------------------------------
(* Strings *)

\* the fixed text of a message is written as one element of the sequence;
\* Backtick stands for the character U+0060, which a TLA+ string cannot hold
Backtick == "U+0060"

NotValidEmail == <<" is not a valid email.">>

MaxOnlyNumber == <<Backtick, "max", Backtick, " can only have a value of number.">>

DomainsOnlyStrings == <<Backtick, "domains", Backtick, " can only have a value of string or array of strings.">>

MaxOnlyWithoutDomains == <<Backtick, "max", Backtick, " can only be used if ", Backtick, "domains", Backtick, " are not provided.">>

NotValidDomain == <<" is not a valid domain.">>

NotValidDomains == <<" are not valid domains.">>

\* Array.prototype.join on an array of strings
RECURSIVE Join(_, _)
Join(ss, sep) ==
  IF Len(ss) = 0 THEN <<>>
  ELSE IF Len(ss) = 1 THEN ss[1]
  ELSE ss[1] \o sep \o Join(Tail(ss), sep)

\* mutant of ToString: an array is written with its brackets
ToStringBracketed(v) ==
  CASE v.t = "string" -> v.s
    [] v.t = "null" -> <<"null">>
    [] v.t = "undefined" -> <<"undefined">>
    [] v.t = "array" -> <<"[">> \o Join([i \in 1..Len(v.l) |-> v.l[i].s], <<",">>) \o <<"]">>

\* the string a template literal substitutes for a value
ToString(v) ==
  CASE v.t = "string" -> v.s
    [] v.t = "null" -> <<"null">>
    [] v.t = "undefined" -> <<"undefined">>
    [] v.t = "array" -> Join([i \in 1..Len(v.l) |-> v.l[i].s], <<",">>)

\* String.prototype.split(c): the segments of s between the occurrences of c
RECURSIVE Split(_, _)
Split(s, c) ==
  IF \A i \in 1..Len(s) : s[i] # c THEN <<s>>
  ELSE LET k == CHOOSE i \in 1..Len(s) : s[i] = c /\ \A j \in 1..(i - 1) : s[j] # c
       IN  <<SubSeq(s, 1, k - 1)>> \o Split(SubSeq(s, k + 1, Len(s)), c)

\* const [name, extension] = x.split('.'): a missing element is undefined
Element(segs, i) == IF i <= Len(segs) THEN segs[i] ELSE <<"undefined">>

-----------------------------------------------------------------------------
(* index.ts *)

\* /^\w+\.[a-zA-Z]{2,}$/
DOMAIN_REGEX == Cat(<<Plus(Word), Lit("."), Rep(Alpha, 2, -1)>>)

\* mutant of TokenGroup: \w* for \w+ after the separator, which lets a
\* separator stand last or next to another one
TokenGroupLoose == <<Plus(Word), Star(Cat(<<Opt(SepClass), Star(Word)>>))>>

\* \w+([.-]?\w+)*
TokenGroup == <<Plus(Word), Star(Cat(<<Opt(SepClass), Plus(Word)>>))>>

\* new RegExp of the template ^\w+([.-]?\w+)*@${name}\.${extension}$
EMAIL_WITH_DOMAIN_REGEX(name, extension) ==
  Cat(TokenGroup \o <<Lit("@")>> \o SourceText(name) \o <<Lit(".")>> \o SourceText(extension))

\* mutant of standardPattern: the extension bound is always 3
standardPatternFixed(m) ==
  Cat(TokenGroup \o <<Lit("@")>> \o TokenGroup
      \o <<Plus(Cat(<<Lit("."), Rep(Word, 2, 3)>>))>>)

\* new RegExp of the template ^\w+([.-]?\w+)*@\w+([.-]?\w+)*(\.\w{2,${max || 3}})+$
standardPattern(m) ==
  Cat(TokenGroup \o <<Lit("@")>> \o TokenGroup
      \o <<Plus(Cat(<<Lit("."), Rep(Word, 2, IF Truthy(m) THEN m.n ELSE 3)>>))>>)

ValidationResult(v, e) == [kind |-> "return", valid |-> v, error |-> e]

Thrown == [kind |-> "throw", valid |-> FALSE, error |-> Undefined]

NoResult == [kind |-> "none", valid |-> FALSE, error |-> Undefined]

\* mutant of getResponse: the message is kept on success
getResponseKeepError(v, e, err) ==
  LET message == IF Truthy(err) THEN err ELSE Str(ToString(e) \o NotValidEmail)
  IN  [kind |-> "return", valid |-> v, error |-> message]

getResponse(v, e, err) ==
  IF v THEN ValidationResult(v, Undefined)
  ELSE LET message == IF Truthy(err) THEN err ELSE Str(ToString(e) \o NotValidEmail)
       IN  ValidationResult(v, IF ~v THEN message ELSE Null)

\* mutant of forEachDomain: the scan stops at the first malformed domain
RECURSIVE forEachDomainFirstError(_, _, _)
forEachDomainFirstError(ds, i, errors) ==
  IF i > Len(ds) THEN errors
  ELSE IF ~Test(DOMAIN_REGEX, ds[i].s) THEN Append(errors, ds[i].s)
  ELSE forEachDomainFirstError(ds, i + 1, errors)

\* domains.forEach(domain => { if (!DOMAIN_REGEX.test(domain)) errors.push(domain); })
RECURSIVE forEachDomain(_, _, _)
forEachDomain(ds, i, errors) ==
  IF i > Len(ds) THEN errors
  ELSE forEachDomain(ds, i + 1,
         IF ~Test(DOMAIN_REGEX, ds[i].s) THEN Append(errors, ds[i].s) ELSE errors)

validateDomains(ds) ==
  LET errors == forEachDomain(ds, 1, <<>>)
      hasErrors == Len(errors) > 0
      message == IF hasErrors
                 THEN Str(<<"[">> \o Join(errors, <<",", " ">>) \o <<"]">> \o NotValidDomains)
                 ELSE Null
  IN  getResponse(~hasErrors, Null, message)

\* mutant of forOfDomains: the loop ends after the first domain, matched or not
forOfDomainsFirstOnly(ds, i, e) ==
  IF i > Len(ds) THEN FALSE
  ELSE LET segs == Split(ds[i].s, ".")
       IN  Test(EMAIL_WITH_DOMAIN_REGEX(Element(segs, 1), Element(segs, 2)), e)

\* for (const domain of domains) { ...; if (isValid) break; }
RECURSIVE forOfDomains(_, _, _)
forOfDomains(ds, i, e) ==
  IF i > Len(ds) THEN FALSE
  ELSE LET segs == Split(ds[i].s, ".")
           isValid == Test(EMAIL_WITH_DOMAIN_REGEX(Element(segs, 1), Element(segs, 2)), e)
       IN  IF isValid THEN TRUE ELSE forOfDomains(ds, i + 1, e)

\* lines 83-92: a single domain, given as a string or as a one-element array
singleDomain(e, d) ==
  LET isDomainsString == d.t = "string"
      emailDomain == IF isDomainsString THEN d.s ELSE d.l[1].s
      isDomainValid == Test(DOMAIN_REGEX, emailDomain)
      segs == Split(emailDomain, ".")
  IN  IF ~isDomainValid
      THEN getResponse(FALSE, Str(e), Str(<<Backtick>> \o ToString(d) \o <<Backtick>> \o NotValidDomain))
      ELSE getResponse(Test(EMAIL_WITH_DOMAIN_REGEX(Element(segs, 1), Element(segs, 2)), e),
                       Str(e), Null)

\* lines 94-114: an array of two or more domains
multipleDomains(e, d) ==
  LET domainResults == validateDomains(d.l)
  IN  IF Truthy(domainResults.error)
      THEN getResponse(FALSE, Str(e), domainResults.error)
      ELSE getResponse(forOfDomains(d.l, 1, e), Str(e), Null)

\* mutant of restricted: max is ignored when domains are given
restrictedIgnoringMax(e, d, m) ==
  LET isDomainsString == d.t = "string"
      isDomainsValidArray == d.t = "array" /\ \A i \in 1..Len(d.l) : d.l[i].t = "string"
      isStringOrArray == isDomainsString \/ isDomainsValidArray
  IN  IF ~isStringOrArray THEN getResponse(FALSE, Null, Str(DomainsOnlyStrings))
      ELSE IF isDomainsString \/ Len(d.l) = 1 THEN singleDomain(e, d)
      ELSE multipleDomains(e, d)

\* mutant of restricted: max is looked at before the type of domains
restrictedMaxFirst(e, d, m) ==
  LET isDomainsString == d.t = "string"
      isDomainsValidArray == d.t = "array" /\ \A i \in 1..Len(d.l) : d.l[i].t = "string"
      isStringOrArray == isDomainsString \/ isDomainsValidArray
  IN  IF Truthy(m) THEN getResponse(FALSE, Null, Str(MaxOnlyWithoutDomains))
      ELSE IF ~isStringOrArray THEN getResponse(FALSE, Null, Str(DomainsOnlyStrings))
      ELSE IF isDomainsString \/ Len(d.l) = 1 THEN singleDomain(e, d)
      ELSE multipleDomains(e, d)

\* lines 73-114: the checks made once domains is known to be given
restricted(e, d, m) ==
  LET isDomainsString == d.t = "string"
      isDomainsValidArray == d.t = "array" /\ \A i \in 1..Len(d.l) : d.l[i].t = "string"
      isStringOrArray == isDomainsString \/ isDomainsValidArray
  IN  IF ~isStringOrArray THEN getResponse(FALSE, Null, Str(DomainsOnlyStrings))
      ELSE IF Truthy(m) THEN getResponse(FALSE, Null, Str(MaxOnlyWithoutDomains))
      ELSE IF isDomainsString \/ Len(d.l) = 1 THEN singleDomain(e, d)
      ELSE multipleDomains(e, d)

\* lines 66-71: the generic validation made when no domains are given
unrestricted(e, m) ==
  IF ~Compiles(standardPattern(m)) THEN Thrown
  ELSE getResponse(Test(standardPattern(m), e), Str(e), Null)

checkEmail(e, d, mx) ==
  LET m == IF mx.t = "undefined" THEN Null ELSE mx
  IN  IF Truthy(m) /\ m.t # "number" THEN getResponse(FALSE, Null, Str(MaxOnlyNumber))
      ELSE IF ~Truthy(d) \/ (d.t = "array" /\ Len(d.l) = 0) THEN unrestricted(e, m)
      ELSE restricted(e, d, m)

-----------------------------------------------------------------------------
(* Inputs *)

EmailChars == {"a", ".", "-", "@"}

\* every string of at most MaxEmailLen characters
AnyEmails == Strings(EmailChars, MaxEmailLen)

\* a@ followed by every string of at most MaxTailLen word characters and separators
TailEmails == {<<"a", "@">> \o t : t \in Strings(EmailChars \ {"@"}, MaxTailLen)}

\* domains that DOMAIN_REGEX accepts
GoodDomains == {<<"a", ".", "a", "a">>, <<"b", ".", "a", "a">>}

\* strings that DOMAIN_REGEX rejects: extension too short, a digit in the
\* extension, a separator in the label, two dots, nothing at all
BadDomains == {<<"a", ".", "a">>, <<"a", ".", "a", "1">>, <<"a", "-", "a", ".", "a", "a">>,
               <<"a", ".", "a", "a", ".", "a", "a">>, <<>>}

\* a string of at most MaxLocalLen characters, then @ or nothing, then one of
\* the good domains, then one more character or nothing
HeadEmails ==
  {h \o m \o p \o t : h \in Strings(EmailChars, MaxLocalLen), m \in {<<>>, <<"@">>},
                      p \in GoodDomains, t \in Strings(EmailChars, 1)}

FewEmails == {<<"a", "@", "a", ".", "a", "a">>, <<"a", "@", "b", ".", "a", "a">>,
              <<"a", "@", "a", ".", "a", "a", "a", "a">>, <<"a", "@", "a", ".", "a">>,
              <<"a">>, <<>>}

\* arrays of 1..n strings drawn from ds
RECURSIVE Lists(_, _)
Lists(ds, n) ==
  IF n = 0 THEN {<<>>}
  ELSE LET shorter == Lists(ds, n - 1)
       IN  shorter \cup {Append(l, Str(x)) : l \in shorter, x \in ds}

NoDomains == {Undefined, Arr(<<>>)}

AllowLists == {Str(x) : x \in GoodDomains} \cup {Arr(l) : l \in Lists(GoodDomains, MaxAllowList) \ {<<>>}}

DomainLists ==
  {Str(x) : x \in GoodDomains \cup BadDomains}
  \cup {Arr(l) : l \in Lists(GoodDomains \cup BadDomains, MaxDomainList)}

\* values of the wrong type
WrongDomains == {Num(1), Bool(TRUE), Arr(<<Num(1)>>), Arr(<<Str(<<"a", ".", "a", "a">>), Num(1)>>)}

OptionDomains ==
  {Undefined} \cup WrongDomains
  \cup {Str(x) : x \in GoodDomains \cup BadDomains}
  \cup {Arr(l) : l \in Lists(GoodDomains \cup BadDomains, 2)}

NumberMax == {Undefined} \cup {Num(n) : n \in 1..MaxMax}

WrongMax == {Str(<<>>), Str(<<"3">>), Bool(FALSE), Bool(TRUE)}

OptionMax == NumberMax \cup WrongMax

Messages == {Null, Str(<<>>), Str(MaxOnlyNumber), Str(<<"a">> \o NotValidEmail)}

-----------------------------------------------------------------------------
(* The calls *)

Init ==
  /\ pc = "ready"
  /\ email = Undefined
  /\ domains = Undefined
  /\ max = Undefined
  /\ valid = FALSE
  /\ error = Undefined
  /\ result = NoResult

\* checkEmail(e, { domains: d, max: m }); an undefined option is one left out
Call(e, d, m) ==
  /\ pc' = "checkEmail"
  /\ email' = Str(e)
  /\ domains' = d
  /\ max' = m
  /\ result' = checkEmail(e, d, m)
  /\ UNCHANGED <<valid, error>>

\* no domains, any email, max a number or left out
CheckUnrestricted ==
  /\ pc = "ready"
  /\ \E e \in AnyEmails \cup TailEmails \cup HeadEmails, d \in NoDomains, m \in NumberMax :
       Call(e, d, m)

\* an allow-list of well-formed domains, max left out
CheckRestricted ==
  /\ pc = "ready"
  /\ \E e \in HeadEmails \cup FewEmails, d \in AllowLists : Call(e, d, Undefined)

\* domains well-formed or not, max left out
CheckDomains ==
  /\ pc = "ready"
  /\ \E e \in FewEmails, d \in DomainLists : Call(e, d, Undefined)

\* every combination of the options, rightly or wrongly typed
CheckOptions ==
  /\ pc = "ready"
  /\ \E e \in FewEmails, d \in OptionDomains, m \in OptionMax : Call(e, d, m)

\* getResponse(v, e, err) on its own
BuildResponse ==
  /\ pc = "ready"
  /\ \E v \in BOOLEAN, e \in {Null} \cup {Str(x) : x \in FewEmails}, err \in Messages :
       /\ pc' = "getResponse"
       /\ valid' = v
       /\ email' = e
       /\ error' = err
       /\ result' = getResponse(v, e, err)
       /\ UNCHANGED <<domains, max>>

Next ==
  \/ CheckUnrestricted
  \/ CheckRestricted
  \/ CheckDomains
  \/ CheckOptions
  \/ BuildResponse

Spec == Init /\ [][Next]_vars

-----------------------------------------------------------------------------
(* What the claims speak of, stated without the patterns *)

IsSeparator(c) == c \in {".", "-"}

\* word characters interleaved with single separators: a word character first
\* and last, no other character than these, no two separators adjacent
IsTokenGroup(s) ==
  /\ Len(s) > 0
  /\ \A i \in 1..Len(s) : s[i] \in WordChars \/ IsSeparator(s[i])
  /\ s[1] \in WordChars
  /\ s[Len(s)] \in WordChars
  /\ \A i \in 1..(Len(s) - 1) : ~(IsSeparator(s[i]) /\ IsSeparator(s[i + 1]))

\* label.tld: one dot, word characters before it, two or more letters after it
IsWellFormedDomain(s) ==
  \E k \in 1..Len(s) :
    /\ s[k] = "."
    /\ k > 1
    /\ \A i \in 1..(k - 1) : s[i] \in WordChars
    /\ Len(s) - k >= 2
    /\ \A i \in (k + 1)..Len(s) : s[i] \in Letters

\* the positions of @ in s
Ats(s) == {i \in 1..Len(s) : s[i] = "@"}

\* s is a local part, one @, and exactly the text d
IsAddressAt(s, d) ==
  /\ Cardinality(Ats(s)) = 1
  /\ LET k == CHOOSE i \in Ats(s) : TRUE
     IN  /\ IsTokenGroup(SubSeq(s, 1, k - 1))
         /\ SubSeq(s, k + 1, Len(s)) = d

\* the strings that options.domains configures
Configured(d) ==
  IF d.t = "string" THEN {d.s} ELSE {d.l[i].s : i \in 1..Len(d.l)}

IsStringList(d) == d.t = "array" /\ \A i \in 1..Len(d.l) : d.l[i].t = "string"

Called == pc = "checkEmail"

Returned == result.kind = "return"

NoDomainsGiven == domains.t = "undefined" \/ (domains.t = "array" /\ Len(domains.l) = 0)

DomainsGiven ==
  \/ domains.t = "string" /\ domains.s # <<>>
  \/ IsStringList(domains) /\ Len(domains.l) > 0

MaxIsNumberOrAbsent == max.t \in {"undefined", "number"}

Failure(message) == ValidationResult(FALSE, Str(message))

-----------------------------------------------------------------------------
(* C1: with max left out and domains a non-empty string or non-empty list  *)
(* of well-formed domains, the email is valid exactly when it is a local   *)
(* part, one @, and text equal to one of the configured domains, whatever  *)
(* the position of that domain in the list.                                *)
C1_AllowListExact ==
  (/\ Called
   /\ max.t = "undefined"
   /\ DomainsGiven
   /\ \A x \in Configured(domains) : IsWellFormedDomain(x))
  => /\ Returned
     /\ result.valid <=> \E x \in Configured(domains) : IsAddressAt(email.s, x)

\* a list whose first entry does not match and whose last entry does
C1_Witness ==
  /\ Called
  /\ max.t = "undefined"
  /\ IsStringList(domains)
  /\ Len(domains.l) = 3
  /\ \A x \in Configured(domains) : IsWellFormedDomain(x)
  /\ ~IsAddressAt(email.s, domains.l[1].s)
  /\ ~IsAddressAt(email.s, domains.l[2].s)
  /\ IsAddressAt(email.s, domains.l[3].s)
  /\ Returned
  /\ result.valid

-----------------------------------------------------------------------------
(* C2: with no domains, an accepted email has between 2 and L word          *)
(* characters after its last dot, L being max when given and 3 otherwise;  *)
(* an address with a four-letter extension is accepted with max = 4 and    *)
(* rejected with max left out.                                             *)
LastDot(s) == CHOOSE k \in 1..Len(s) : s[k] = "." /\ \A j \in (k + 1)..Len(s) : s[j] # "."

InfoEmail == <<"a", "@", "a", ".", "a", "a", "a", "a">>

C2_ExtensionLength ==
  (Called /\ NoDomainsGiven /\ MaxIsNumberOrAbsent /\ Returned)
  => /\ result.valid =>
          LET s == email.s
              L == IF max.t = "number" THEN max.n ELSE 3
          IN  /\ \E k \in 1..Len(s) : s[k] = "."
              /\ Len(s) - LastDot(s) >= 2
              /\ Len(s) - LastDot(s) <= L
              /\ \A i \in (LastDot(s) + 1)..Len(s) : s[i] \in WordChars
     /\ email.s = InfoEmail => /\ max = Num(4) => result.valid
                               /\ max.t = "undefined" => ~result.valid

C2_Witness ==
  /\ Called
  /\ NoDomainsGiven
  /\ max = Num(4)
  /\ email.s = InfoEmail
  /\ Returned
  /\ result.valid

-----------------------------------------------------------------------------
(* C3: checkEmail never throws: every call returns a ValidationResult.     *)
C3_NeverThrows == Called => Returned

-----------------------------------------------------------------------------
(* C4: a call with a numeric max and a domains value, a string or a list   *)
(* of strings, returns the error that max can only be used if domains are  *)
(* not provided.  (Stated of the calls that return, so that a call which   *)
(* throws is not what refutes it.)                                         *)
C4_Original ==
  (Called /\ Returned /\ max.t = "number" /\ (domains.t = "string" \/ IsStringList(domains)))
  => result = Failure(MaxOnlyWithoutDomains)

(* C4 as amended: the same, for a domains value that is a non-empty string *)
(* or a non-empty list of strings.                                         *)
C4_MaxExcludesDomains ==
  (Called /\ max.t = "number" /\ DomainsGiven) => result = Failure(MaxOnlyWithoutDomains)

\* max given with an allow-list that holds the email's domain
C4_Witness ==
  /\ Called
  /\ max.t = "number"
  /\ IsStringList(domains)
  /\ \E x \in Configured(domains) : IsAddressAt(email.s, x)
  /\ result = Failure(MaxOnlyWithoutDomains)

-----------------------------------------------------------------------------
(* C5: a max that is given and is not a number makes the call fail with    *)
(* the error that max can only have a value of number, whatever the email  *)
(* and the domains.                                                        *)
C5_MaxMustBeNumber ==
  (Called /\ max.t \notin {"undefined", "number"}) => result = Failure(MaxOnlyNumber)

-----------------------------------------------------------------------------
(* C6: with max left out and a list of two or more strings of which at     *)
(* least one is malformed, the call fails with the message listing exactly *)
(* the malformed entries in their order, whatever the email.               *)
IsMalformed(x) == ~IsWellFormedDomain(x)

Entries(d) == [i \in 1..Len(d.l) |-> d.l[i].s]

C6_MalformedListed ==
  (/\ Called
   /\ max.t = "undefined"
   /\ IsStringList(domains)
   /\ Len(domains.l) >= 2
   /\ \E x \in Configured(domains) : IsMalformed(x))
  => result = Failure(<<"[">> \o Join(SelectSeq(Entries(domains), IsMalformed), <<",", " ">>)
                      \o <<"]">> \o NotValidDomains)

\* two different malformed entries around a well-formed one that the email matches
C6_Witness ==
  /\ Called
  /\ max.t = "undefined"
  /\ IsStringList(domains)
  /\ Len(domains.l) = 3
  /\ IsMalformed(domains.l[1].s)
  /\ IsAddressAt(email.s, domains.l[2].s)
  /\ IsMalformed(domains.l[3].s)
  /\ domains.l[1].s # domains.l[3].s
  /\ Returned
  /\ ~result.valid

-----------------------------------------------------------------------------
(* C7: every result returned by checkEmail or by getResponse carries no    *)
(* error when valid is true, and a non-empty string as error when valid is *)
(* false.                                                                  *)
C7_ErrorIffInvalid ==
  Returned =>
    /\ result.valid => result.error.t \in {"undefined", "null"}
    /\ ~result.valid => result.error.t = "string" /\ result.error.s # <<>>

\* getResponse called with valid = true and an error message
C7_Witness ==
  /\ pc = "getResponse"
  /\ valid
  /\ Truthy(error)
  /\ Returned
  /\ result.valid
  /\ result.error.t = "undefined"

-----------------------------------------------------------------------------
(* C8: the error returned is that of the first failing check: a truthy max *)
(* that is no number gives the max-type error whatever domains is; a       *)
(* wrongly typed domains with a numeric max gives the domains-type error;  *)
(* a domains value of the right type, malformed or not, with a numeric max *)
(* gives the mutual-exclusion error.                                       *)
DomainsWronglyTyped == Truthy(domains) /\ domains.t # "string" /\ ~IsStringList(domains)

C8_Precedence ==
  Called =>
    /\ (Truthy(max) /\ max.t # "number") => result = Failure(MaxOnlyNumber)
    /\ (max.t = "number" /\ DomainsWronglyTyped) => result = Failure(DomainsOnlyStrings)
    /\ (max.t = "number" /\ DomainsGiven /\ \E x \in Configured(domains) : IsMalformed(x))
         => result = Failure(MaxOnlyWithoutDomains)

\* a list holding a non-string, with a numeric max
C8_Witness ==
  /\ Called
  /\ max.t = "number"
  /\ domains.t = "array"
  /\ DomainsWronglyTyped
  /\ result = Failure(DomainsOnlyStrings)

-----------------------------------------------------------------------------
(* C9: with no domains, an accepted email has exactly one @, and neither   *)
(* the part before it nor the part after it begins or ends with a          *)
(* separator or holds two adjacent separators.                             *)
C9_SeparatorsSingle ==
  (Called /\ NoDomainsGiven /\ MaxIsNumberOrAbsent /\ Returned /\ result.valid)
  => /\ Cardinality(Ats(email.s)) = 1
     /\ LET k == CHOOSE i \in Ats(email.s) : TRUE
        IN  /\ IsTokenGroup(SubSeq(email.s, 1, k - 1))
            /\ IsTokenGroup(SubSeq(email.s, k + 1, Len(email.s)))

\* an accepted email with a separator before the @ and two after it
C9_Witness ==
  /\ Called
  /\ NoDomainsGiven
  /\ Returned
  /\ result.valid
  /\ \E k \in Ats(email.s) :
       /\ \E i \in 1..(k - 1) : IsSeparator(email.s[i])
       /\ \E i \in (k + 1)..Len(email.s) : email.s[i] = "."

-----------------------------------------------------------------------------
(* C10: a non-empty string d given as domains and the one-element list of  *)
(* d give the same result: both give what d alone decides, the error that  *)
(* d is not a valid domain when d is malformed, and otherwise valid        *)
(* exactly when the email is a local part, one @ and d.                    *)
TheDomain == IF domains.t = "string" THEN domains.s ELSE domains.l[1].s

OneDomainGiven ==
  /\ domains.t = "string" \/ (IsStringList(domains) /\ Len(domains.l) = 1)
  /\ TheDomain # <<>>

C10_StringAsList ==
  (Called /\ max.t = "undefined" /\ OneDomainGiven)
  => result = IF IsMalformed(TheDomain)
              THEN Failure(<<Backtick>> \o TheDomain \o <<Backtick>> \o NotValidDomain)
              ELSE IF IsAddressAt(email.s, TheDomain) THEN ValidationResult(TRUE, Undefined)
              ELSE Failure(email.s \o NotValidEmail)

\* a malformed domain given as a one-element list
C10_Witness ==
  /\ Called
  /\ max.t = "undefined"
  /\ domains.t = "array"
  /\ OneDomainGiven
  /\ IsMalformed(TheDomain)
  /\ result = Failure(<<Backtick>> \o TheDomain \o <<Backtick>> \o NotValidDomain)

====
